---- MODULE Spec2Model ----
(***************************************************************************)
(* tabprinter: the Table of src/lib.rs as a state machine.                 *)
(*                                                                         *)
(* A Table owns columns, rows, a style and an optional page size.  The     *)
(* public operations are add_column, add_row, set_page_size and the four   *)
(* render entry points print, print_color, print_to_writer and             *)
(* print_color_paginated.  The output sink is the stream of tokens the     *)
(* current call has written: one token per glyph, per padding space, per   *)
(* cell text, per newline and per colour directive, in write order.        *)
(* Writes to the sink and reads from stdin succeed (no io::Error); from_csv *)
(* and to_csv are left out.                                                *)
(***************************************************************************)
EXTENDS Integers, Sequences, FiniteSets, TLC

(***************************************************************************)
(* Bounds of the model.                                                    *)
(***************************************************************************)
MaxCols == 2

MaxRows == 3

MaxPageSize == 2

(***************************************************************************)
(* Option<usize>                                                           *)
(***************************************************************************)
None == [some |-> FALSE, v |-> 0]

Some(n) == [some |-> TRUE, v |-> n]

unwrap_or(o, d) == IF o.some THEN o.v ELSE d

is_none(o) == ~o.some

(***************************************************************************)
(* enum TableStyle, in declaration order, and enum Alignment.              *)
(***************************************************************************)
TableStyle ==
  <<"Simple", "Grid", "FancyGrid", "Clean", "Round", "Banner", "Block",
    "Amiga", "Minimal", "Compact", "Markdown", "Dotted", "Heavy", "Neon">>

Alignment == {"Left", "Center", "Right"}

(***************************************************************************)
(* struct LineStyle.  A glyph is a one-character string; the box-drawing   *)
(* characters are written by their code point ("u2552" is U+2552).         *)
(***************************************************************************)
LS(b, h, s, e) == [begin |-> b, hline |-> h, sep |-> s, end |-> e]

(***************************************************************************)
(* const STYLES: [TableStyleConfig; 14], as define_styles! builds it: the  *)
(* entries in the order they are written.  The macro drops the name each   *)
(* entry is written under; the model keeps it in the field "name".         *)
(***************************************************************************)
STYLES == <<
  [name |-> "Simple",
   top |-> LS("", "", "", ""),
   below_header |-> LS("", "", "", ""),
   bottom |-> LS("", "", "", ""),
   row |-> LS("", "", "", "") ],
  [name |-> "Grid",
   top |-> LS("+", "-", "+", "+"),
   below_header |-> LS("+", "-", "+", "+"),
   bottom |-> LS("+", "-", "+", "+"),
   row |-> LS("|", "", "|", "|") ],
  [name |-> "FancyGrid",
   top |-> LS("u2552", "u2550", "u2564", "u2555"),
   below_header |-> LS("u255E", "u2550", "u256A", "u2561"),
   bottom |-> LS("u2558", "u2550", "u2567", "u255B"),
   row |-> LS("u2502", "", "u2502", "u2502") ],
  [name |-> "Clean",
   top |-> LS("", "u2500", " ", ""),
   below_header |-> LS("", "u2500", " ", ""),
   bottom |-> LS("", "u2500", " ", ""),
   row |-> LS("", "", " ", "") ],
  [name |-> "Round",
   top |-> LS("u256D", "u2500", "u252C", "u256E"),
   below_header |-> LS("u251C", "u2500", "u253C", "u2524"),
   bottom |-> LS("u2570", "u2500", "u2534", "u256F"),
   row |-> LS("u2502", "", "u2502", "u2502") ],
  [name |-> "Banner",
   top |-> LS("u2552", "u2550", "u2564", "u2555"),
   below_header |-> LS("u2558", "u2550", "u2567", "u255B"),
   bottom |-> LS("u2558", "u2550", "u2567", "u255B"),
   row |-> LS("u2502", "", "u2502", "u2502") ],
  [name |-> "Block",
   top |-> LS("u25E2", "u25A0", "u25A0", "u25E3"),
   below_header |-> LS(" ", "u2501", "u2501", " "),
   bottom |-> LS("u25E5", "u25A0", "u25A0", "u25E4"),
   row |-> LS("", "", " ", "") ],
  [name |-> "Amiga",
   top |-> LS("", "", "", ""),
   below_header |-> LS("", "", "", ""),
   bottom |-> LS("", "", "", ""),
   row |-> LS("", "", "", "") ],
  [name |-> "Minimal",
   top |-> LS("u250C", "u2500", "u252C", "u2510"),
   below_header |-> LS("u251C", "u2500", "u253C", "u2524"),
   bottom |-> LS("u2514", "u2500", "u2534", "u2518"),
   row |-> LS("u2502", "", "u2502", "u2502") ],
  [name |-> "Compact",
   top |-> LS("u250C", "u2500", "u252C", "u2510"),
   below_header |-> LS("u251C", "u2500", "u253C", "u2524"),
   bottom |-> LS("u2514", "u2500", "u2534", "u2518"),
   row |-> LS("u2502", "", "u2502", "u2502") ],
  [name |-> "Markdown",
   top |-> LS("", "", "", ""),
   below_header |-> LS("|", "-", "|", "|"),
   bottom |-> LS("", "", "", ""),
   row |-> LS("|", "", "|", "|") ],
  [name |-> "Dotted",
   top |-> LS(".", ".", ".", "."),
   below_header |-> LS(":", ".", ":", ":"),
   bottom |-> LS("'", ".", "'", "'"),
   row |-> LS(":", "", ":", ":") ],
  [name |-> "Heavy",
   top |-> LS("u250F", "u2501", "u2533", "u2513"),
   below_header |-> LS("u2523", "u2501", "u254B", "u252B"),
   bottom |-> LS("u2517", "u2501", "u253B", "u251B"),
   row |-> LS("u2503", "", "u2503", "u2503") ],
  [name |-> "Neon",
   top |-> LS("u250F", "u2501", "u2533", "u2513"),
   below_header |-> LS("u2523", "u2501", "u254B", "u252B"),
   bottom |-> LS("u2517", "u2501", "u253B", "u251B"),
   row |-> LS("u2503", "", "u2503", "u2503") ]
>>

\* STYLES[i] of the source: the array is indexed from 0.
StylesAt(i) == STYLES[i + 1]

(***************************************************************************)
(* Tokens of the output stream.                                            *)
(***************************************************************************)
NL == "NL"

SET_FG_BLUE == "set_color(fg=Blue)"

SET_FG_WHITE == "set_color(fg=White)"

PRESS_ENTER == "Press Enter to continue..."

\* write!(writer, "{}", s): an empty string writes nothing.
Write(s) == IF s = "" THEN <<>> ELSE <<s>>

Spaces(n) == [i \in 1..n |-> " "]

\* hline.repeat(n)
Repeat(g, n) == IF g = "" THEN <<>> ELSE [i \in 1..n |-> g]

(***************************************************************************)
(* "{:<width$}", "{:^width$}", "{:>width$}": the text padded with spaces   *)
(* to `width`; a text at least as long as `width` is written as it is.     *)
(* Centering puts the odd space on the right.                              *)
(***************************************************************************)
FormatAligned(text, width, alignment) ==
  LET padding == IF width > Len(text) THEN width - Len(text) ELSE 0
      left == CASE alignment = "Left" -> 0
                [] alignment = "Center" -> padding \div 2
                [] alignment = "Right" -> padding
  IN  Spaces(left) \o Write(text) \o Spaces(padding - left)

(***************************************************************************)
(* The result of a run of writes: the tokens written and how the run       *)
(* ended.  "ok": every write was made.  "panic": the thread panicked (the  *)
(* tokens are those written before it).  "wrap": a usize subtraction       *)
(* wrapped in a build without overflow checks and the text was formatted   *)
(* with the width usize::MAX.                                              *)
(***************************************************************************)
Ok(toks) == [toks |-> toks, st |-> "ok"]

Stop(st) == [toks |-> <<>>, st |-> st]

\* a; b  with the ? operator and unwinding: b runs only when a ended "ok".
AndThen(a, b) ==
  IF a.st = "ok" THEN [toks |-> a.toks \o b.toks, st |-> b.st] ELSE a

(***************************************************************************)
(* width - 1 on usize.  With overflow checks (the debug profile) 0 - 1     *)
(* panics; without them (the release profile) it wraps to usize::MAX.      *)
(***************************************************************************)
WidthMinusOne(text, width, alignment, overflow_checks) ==
  IF width >= 1 THEN Ok(FormatAligned(text, width - 1, alignment))
  ELSE IF overflow_checks THEN Stop("panic")
  ELSE Stop("wrap")

(***************************************************************************)
(* fn print_headers: every header formatted to width - 1, one space        *)
(* between columns (none after the last), then a newline.                  *)
(***************************************************************************)
RECURSIVE print_headers_from(_, _, _)
print_headers_from(cols, i, overflow_checks) ==
  IF i > Len(cols) THEN Ok(<<NL>>)
  ELSE LET column == cols[i]
           width == unwrap_or(column.width, 0)
       IN  AndThen(WidthMinusOne(column.header, width, column.alignment,
                                 overflow_checks),
           AndThen(Ok(IF i - 1 < Len(cols) - 1 THEN <<" ">> ELSE <<>>),
                   print_headers_from(cols, i + 1, overflow_checks)))

print_headers(cols, overflow_checks) ==
  print_headers_from(cols, 1, overflow_checks)

Min(a, b) == IF a < b THEN a ELSE b

(***************************************************************************)
(* fn print_row: columns zipped with the cells (the shorter of the two     *)
(* decides), every cell formatted to width - 1 and followed by one space,  *)
(* then a newline.                                                         *)
(***************************************************************************)
RECURSIVE print_row_from(_, _, _, _)
print_row_from(cols, row, i, overflow_checks) ==
  IF i > Min(Len(cols), Len(row)) THEN Ok(<<NL>>)
  ELSE LET column == cols[i]
           width == unwrap_or(column.width, 0)
       IN  AndThen(WidthMinusOne(row[i], width, column.alignment,
                                 overflow_checks),
           AndThen(Ok(<<" ">>),
                   print_row_from(cols, row, i + 1, overflow_checks)))

print_row(cols, row, overflow_checks) ==
  print_row_from(cols, row, 1, overflow_checks)

\* self.rows.iter().try_for_each(|row| self.print_row(..)) over rs
RECURSIVE print_rows_from(_, _, _, _)
print_rows_from(cols, rs, k, overflow_checks) ==
  IF k > Len(rs) THEN Ok(<<>>)
  ELSE AndThen(print_row(cols, rs[k], overflow_checks),
               print_rows_from(cols, rs, k + 1, overflow_checks))

(***************************************************************************)
(* fn print_line: begin, then per column the separator (from the second    *)
(* column on) and hline repeated width + 2 times, then end and a newline.  *)
(***************************************************************************)
RECURSIVE print_line_from(_, _, _)
print_line_from(cols, ls, i) ==
  IF i > Len(cols) THEN Write(ls.end) \o <<NL>>
  ELSE (IF i - 1 > 0 THEN Write(ls.sep) ELSE <<>>)
       \o Repeat(ls.hline, unwrap_or(cols[i].width, 0) + 2)
       \o print_line_from(cols, ls, i + 1)

print_line(cols, ls) == Write(ls.begin) \o print_line_from(cols, ls, 1)

(***************************************************************************)
(* fn print_row_styled: begin, then per (cell, column) pair the separator  *)
(* (from the second on) and " cell " with the cell formatted to width,     *)
(* then end and a newline.                                                 *)
(***************************************************************************)
RECURSIVE print_row_styled_from(_, _, _, _)
print_row_styled_from(cols, cells, ls, i) ==
  IF i > Min(Len(cells), Len(cols)) THEN Write(ls.end) \o <<NL>>
  ELSE LET column == cols[i]
           width == unwrap_or(column.width, 0)
       IN  (IF i - 1 > 0 THEN Write(ls.sep) ELSE <<>>)
           \o <<" ">> \o FormatAligned(cells[i], width, column.alignment)
           \o <<" ">>
           \o print_row_styled_from(cols, cells, ls, i + 1)

print_row_styled(cols, cells, ls) ==
  Write(ls.begin) \o print_row_styled_from(cols, cells, ls, 1)

RECURSIVE print_rows_styled_from(_, _, _, _)
print_rows_styled_from(cols, rs, ls, k) ==
  IF k > Len(rs) THEN <<>>
  ELSE print_row_styled(cols, rs[k], ls)
       \o print_rows_styled_from(cols, rs, ls, k + 1)

(***************************************************************************)
(* fn print_styled: top line, styled header row, below_header line, one    *)
(* styled row per data row, bottom line.                                   *)
(***************************************************************************)
print_styled(cols, rs, config) ==
  Ok(print_line(cols, config.top)
     \o print_row_styled(cols, [i \in 1..Len(cols) |-> cols[i].header],
                         config.row)
     \o print_line(cols, config.below_header)
     \o print_rows_styled_from(cols, rs, config.row, 1)
     \o print_line(cols, config.bottom))

\* fn print_simple: the header line, then one plain line per row.
print_simple(cols, rs, overflow_checks) ==
  AndThen(print_headers(cols, overflow_checks),
          print_rows_from(cols, rs, 1, overflow_checks))

\* print_amiga_color with the switch to white made after the rows.
print_amiga_color_late_white(cols, rs, overflow_checks) ==
  AndThen(Ok(<<SET_FG_BLUE>>),
  AndThen(print_headers(cols, overflow_checks),
  AndThen(print_rows_from(cols, rs, 1, overflow_checks),
          Ok(<<SET_FG_WHITE>>))))

(***************************************************************************)
(* fn print_amiga_color: foreground blue, the header line, foreground      *)
(* white, one plain line per row.                                          *)
(***************************************************************************)
print_amiga_color(cols, rs, overflow_checks) ==
  AndThen(Ok(<<SET_FG_BLUE>>),
  AndThen(print_headers(cols, overflow_checks),
  AndThen(Ok(<<SET_FG_WHITE>>),
          print_rows_from(cols, rs, 1, overflow_checks))))

(***************************************************************************)
(* An arm of a match on the style: the routine it calls and, for           *)
(* print_styled, the index i of the &STYLES[i] it passes.                  *)
(***************************************************************************)
Arm(routine, config) == [routine |-> routine, config |-> config]

\* The match of print_color on self.style.
print_color_match(st) ==
  CASE st = "Simple" -> Arm("print_simple", None)
    [] st = "Grid" -> Arm("print_styled", Some(1))
    [] st = "FancyGrid" -> Arm("print_styled", Some(2))
    [] st = "Clean" -> Arm("print_styled", Some(3))
    [] st = "Round" -> Arm("print_styled", Some(4))
    [] st = "Banner" -> Arm("print_styled", Some(5))
    [] st = "Block" -> Arm("print_styled", Some(6))
    [] st = "Amiga" -> Arm("print_amiga_color", None)
    [] st = "Minimal" -> Arm("print_styled", Some(7))
    [] st = "Compact" -> Arm("print_styled", Some(8))
    [] st = "Markdown" -> Arm("print_styled", Some(9))
    [] st = "Dotted" -> Arm("print_styled", Some(10))
    [] st = "Heavy" -> Arm("print_styled", Some(11))
    [] st = "Neon" -> Arm("print_styled", Some(12))

\* The match of print_to_writer on self.style.
print_to_writer_match(st) ==
  CASE st = "Simple" -> Arm("print_simple", None)
    [] st = "Grid" -> Arm("print_styled", Some(1))
    [] st = "FancyGrid" -> Arm("print_styled", Some(2))
    [] st = "Clean" -> Arm("print_styled", Some(3))
    [] st = "Round" -> Arm("print_styled", Some(4))
    [] st = "Banner" -> Arm("print_styled", Some(5))
    [] st = "Block" -> Arm("print_styled", Some(6))
    [] st = "Amiga" -> Arm("print_simple", None)
    [] st = "Minimal" -> Arm("print_simple", None)
    [] st = "Compact" -> Arm("print_simple", None)
    [] st = "Markdown" -> Arm("print_simple", None)
    [] st = "Dotted" -> Arm("print_simple", None)
    [] st = "Heavy" -> Arm("print_simple", None)
    [] st = "Neon" -> Arm("print_simple", None)

\* The call an arm makes.
CallArm(arm, cols, rs, overflow_checks) ==
  CASE arm.routine = "print_simple" -> print_simple(cols, rs, overflow_checks)
    [] arm.routine = "print_amiga_color" ->
         print_amiga_color(cols, rs, overflow_checks)
    [] arm.routine = "print_styled" ->
         print_styled(cols, rs, StylesAt(arm.config.v))

(***************************************************************************)
(* fn calculate_column_widths: nothing without auto_width; otherwise every *)
(* column whose width is None, in column order, gets                       *)
(* Some(max(header.len(), row[i].len() for every row) + 2).  row[i] panics *)
(* (index out of bounds) on a row with no cell i; the columns before it    *)
(* have been resolved by then.                                             *)
(***************************************************************************)
MaxOf(S) == CHOOSE m \in S : \A x \in S : x <= m

\* calculate_from without the width.is_none() test: every column is resized.
RECURSIVE calculate_from_every(_, _, _)
calculate_from_every(cols, rs, i) ==
  IF i > Len(cols) THEN [columns |-> cols, st |-> "ok"]
  ELSE IF \E k \in 1..Len(rs) : Len(rs[k]) < i
       THEN [columns |-> cols, st |-> "panic"]
       ELSE LET max_width ==
                  MaxOf({Len(rs[k][i]) : k \in 1..Len(rs)}
                        \cup {Len(cols[i].header)})
            IN  calculate_from_every(
                  [cols EXCEPT ![i].width = Some(max_width + 2)], rs, i + 1)

\* calculate_from without the .chain(once(header.len())): cells only.
RECURSIVE calculate_from_cells_only(_, _, _)
calculate_from_cells_only(cols, rs, i) ==
  IF i > Len(cols) THEN [columns |-> cols, st |-> "ok"]
  ELSE IF is_none(cols[i].width)
       THEN IF \E k \in 1..Len(rs) : Len(rs[k]) < i
            THEN [columns |-> cols, st |-> "panic"]
            ELSE LET max_width ==
                       MaxOf({Len(rs[k][i]) : k \in 1..Len(rs)} \cup {0})
                 IN  calculate_from_cells_only(
                       [cols EXCEPT ![i].width = Some(max_width + 2)],
                       rs, i + 1)
       ELSE calculate_from_cells_only(cols, rs, i + 1)

RECURSIVE calculate_from(_, _, _)
calculate_from(cols, rs, i) ==
  IF i > Len(cols) THEN [columns |-> cols, st |-> "ok"]
  ELSE IF is_none(cols[i].width)
       THEN IF \E k \in 1..Len(rs) : Len(rs[k]) < i
            THEN [columns |-> cols, st |-> "panic"]
            ELSE LET max_width ==
                       MaxOf({Len(rs[k][i]) : k \in 1..Len(rs)}
                             \cup {Len(cols[i].header)})
                 IN  calculate_from(
                       [cols EXCEPT ![i].width = Some(max_width + 2)],
                       rs, i + 1)
       ELSE calculate_from(cols, rs, i + 1)

calculate_column_widths(cols, rs, auto) ==
  IF ~auto THEN [columns |-> cols, st |-> "ok"]
  ELSE calculate_from(cols, rs, 1)

(***************************************************************************)
(* The inputs the model draws from.                                        *)
(***************************************************************************)
ColumnInputs ==
  { [header |-> "No", width |-> None, alignment |-> "Left"],
    [header |-> "Id", width |-> Some(3), alignment |-> "Center"],
    [header |-> "N", width |-> Some(0), alignment |-> "Right"] }

\* The rows a caller builds, of any number n of cells, for a table that holds
\* k rows: short cells for every other row, long ones in between.
RowInputs(n, k) ==
  { [i \in 1..n |-> IF k % 2 = 0 THEN "x"
                    ELSE IF i % 2 = 1 THEN "long" ELSE "wider"] }

PageSizeInputs == 0..MaxPageSize

(***************************************************************************)
(* The state: the fields of struct Table, and the call in progress.        *)
(*   pc     where the running call stands: "idle" (no call),               *)
(*          "call_print_color" (print has run calculate_column_widths and  *)
(*          is about to call print_color), "match" (about to match on the  *)
(*          style and write), "page" (at the top of the body of the page   *)
(*          loop), "read_line" (blocked in stdin().read_line), "done" (the *)
(*          call has returned Ok), "panicked", "wrapped" (formatting with  *)
(*          the width usize::MAX)                                          *)
(*   op     the public operation that is running or that panicked, "none" *)
(*          between calls                                                  *)
(*   sink   the tokens the call has written to its writer                  *)
(*   page, total_pages, local_page_size   locals of print_color_paginated  *)
(*   lines_read   the lines the call has read from stdin                   *)
(***************************************************************************)
VARIABLES columns, rows, style, auto_width, page_size,
          pc, op, sink, page, total_pages, local_page_size, lines_read

table == <<columns, rows, style, auto_width, page_size>>

locals == <<page, total_pages, local_page_size, lines_read>>

vars == <<columns, rows, style, auto_width, page_size,
          pc, op, sink, page, total_pages, local_page_size, lines_read>>

\* Table::new(style)
Init ==
  /\ columns = <<>>
  /\ rows = <<>>
  /\ style \in {TableStyle[i] : i \in 1..Len(TableStyle)}
  /\ auto_width = TRUE
  /\ page_size = None
  /\ pc = "idle"
  /\ op = "none"
  /\ sink = <<>>
  /\ page = 0
  /\ total_pages = 0
  /\ local_page_size = 0
  /\ lines_read = 0

\* pc after a run of writes that ended st, when it would go to `next` on Ok
After(st, next) ==
  CASE st = "ok" -> next
    [] st = "panic" -> "panicked"
    [] st = "wrap" -> "wrapped"

\* fn add_column
add_column(header, width, alignment) ==
  /\ pc = "idle"
  /\ Len(columns) < MaxCols
  /\ columns' = Append(columns, [header |-> header, width |-> width,
                                 alignment |-> alignment])
  /\ op' = "none"
  /\ UNCHANGED <<rows, style, auto_width, page_size, pc, sink, locals>>

AddColumn == \E c \in ColumnInputs : add_column(c.header, c.width, c.alignment)

\* add_row without the assert_eq!: the row is pushed whatever its length.
add_row_unchecked(row) ==
  /\ pc = "idle"
  /\ Len(rows) < MaxRows
  /\ rows' = Append(rows, row)
  /\ pc' = pc
  /\ op' = "none"
  /\ UNCHANGED <<columns, style, auto_width, page_size, sink, locals>>

\* fn add_row: assert_eq!(columns.len(), row.len()), then push
add_row(row) ==
  /\ pc = "idle"
  /\ IF Len(columns) # Len(row)
     THEN /\ pc' = "panicked"
          /\ op' = "add_row"
          /\ rows' = rows
     ELSE /\ Len(rows) < MaxRows
          /\ rows' = Append(rows, row)
          /\ pc' = pc
          /\ op' = "none"
  /\ UNCHANGED <<columns, style, auto_width, page_size, sink, locals>>

AddRow == \E n \in 0..(MaxCols + 1) : \E row \in RowInputs(n, Len(rows)) : add_row(row)

\* fn set_page_size
set_page_size(n) ==
  /\ pc = "idle"
  /\ page_size' = Some(n)
  /\ op' = "none"
  /\ UNCHANGED <<columns, rows, style, auto_width, pc, sink, locals>>

SetPageSize == \E n \in PageSizeInputs : set_page_size(n)

(***************************************************************************)
(* fn print: calculate_column_widths, then the call of print_color on      *)
(* stdout.                                                                 *)
(***************************************************************************)
print ==
  /\ pc = "idle"
  /\ LET r == calculate_column_widths(columns, rows, auto_width)
     IN  /\ columns' = r.columns
         /\ pc' = After(r.st, "call_print_color")
  /\ op' = "print"
  /\ sink' = <<>>
  /\ UNCHANGED <<rows, style, auto_width, page_size, locals>>

(***************************************************************************)
(* fn print_color, up to its match: calculate_column_widths.  Called by    *)
(* the user, or by print.                                                  *)
(***************************************************************************)
print_color ==
  /\ \/ pc = "idle" /\ op' = "print_color"
     \/ pc = "call_print_color" /\ op' = op
  /\ LET r == calculate_column_widths(columns, rows, auto_width)
     IN  /\ columns' = r.columns
         /\ pc' = After(r.st, "match")
  /\ sink' = <<>>
  /\ UNCHANGED <<rows, style, auto_width, page_size, locals>>

\* fn print_to_writer, up to its match: &self, nothing is resolved.
print_to_writer ==
  /\ pc = "idle"
  /\ op' = "print_to_writer"
  /\ pc' = "match"
  /\ sink' = <<>>
  /\ UNCHANGED <<table, locals>>

(***************************************************************************)
(* The match on the style of print_color (also when print called it) and   *)
(* of print_to_writer, and the writes of the routine it selects.           *)
(***************************************************************************)
Match ==
  /\ pc = "match"
  /\ \E overflow_checks \in BOOLEAN :
       LET arm == IF op = "print_to_writer"
                  THEN print_to_writer_match(style)
                  ELSE print_color_match(style)
           r == CallArm(arm, columns, rows, overflow_checks)
       IN  /\ sink' = sink \o r.toks
           /\ pc' = After(r.st, "done")
  /\ UNCHANGED <<table, op, locals>>

\* print_color_paginated with total_pages = rows.len() / page_size.
print_color_paginated_floor ==
  /\ pc = "idle"
  /\ op' = "print_color_paginated"
  /\ sink' = <<>>
  /\ page' = 0
  /\ lines_read' = 0
  /\ LET ps == unwrap_or(page_size, Len(rows))
     IN  /\ local_page_size' = ps
         /\ IF ps = 0
            THEN /\ total_pages' = 0
                 /\ pc' = "panicked"
            ELSE /\ total_pages' = Len(rows) \div ps
                 /\ pc' = IF total_pages' > 0 THEN "page" ELSE "done"
  /\ UNCHANGED table

(***************************************************************************)
(* fn print_color_paginated, up to its loop:                               *)
(*   page_size = self.page_size.unwrap_or(self.rows.len())                 *)
(*   total_pages = (self.rows.len() + page_size - 1) / page_size           *)
(* With page_size 0 the division panics; before it, 0 + 0 - 1 panics with  *)
(* overflow checks and wraps without.  A loop over no pages returns Ok.    *)
(***************************************************************************)
print_color_paginated ==
  /\ pc = "idle"
  /\ op' = "print_color_paginated"
  /\ sink' = <<>>
  /\ page' = 0
  /\ lines_read' = 0
  /\ LET ps == unwrap_or(page_size, Len(rows))
     IN  /\ local_page_size' = ps
         /\ IF ps = 0
            THEN /\ total_pages' = 0
                 /\ pc' = "panicked"
            ELSE /\ total_pages' = (Len(rows) + ps - 1) \div ps
                 /\ pc' = IF total_pages' > 0 THEN "page" ELSE "done"
  /\ UNCHANGED table

\* fn print_page: the header line, then a plain line per row of rows[start..end]
print_page(cols, rs, start, end, overflow_checks) ==
  AndThen(print_headers(cols, overflow_checks),
          print_rows_from(cols, SubSeq(rs, start + 1, end), 1,
                          overflow_checks))

\* The body of the page loop with the prompt and read_line on every page.
PageBody_pause_always ==
  /\ pc = "page"
  /\ \E overflow_checks \in BOOLEAN :
       LET start_page == page * local_page_size
           end_page == Min((page + 1) * local_page_size, Len(rows))
           r == AndThen(Ok(<<"Page " \o ToString(page + 1) \o " of "
                               \o ToString(total_pages), NL>>),
                AndThen(print_page(columns, rows, start_page, end_page,
                                   overflow_checks),
                        Ok(<<PRESS_ENTER, NL>>)))
       IN  /\ sink' = sink \o r.toks
           /\ pc' = After(r.st, "read_line")
  /\ UNCHANGED <<table, op, locals>>

(***************************************************************************)
(* One pass of the body of the page loop, up to read_line or to the end of *)
(* the loop: "Page {page + 1} of {total_pages}", print_page, and on every  *)
(* page but the last the prompt, after which the call blocks on stdin.     *)
(***************************************************************************)
PageBody ==
  /\ pc = "page"
  /\ \E overflow_checks \in BOOLEAN :
       LET start_page == page * local_page_size
           end_page == Min((page + 1) * local_page_size, Len(rows))
           more == page < total_pages - 1
           r == AndThen(Ok(<<"Page " \o ToString(page + 1) \o " of "
                               \o ToString(total_pages), NL>>),
                AndThen(print_page(columns, rows, start_page, end_page,
                                   overflow_checks),
                        Ok(IF more THEN <<PRESS_ENTER, NL>> ELSE <<>>)))
       IN  /\ sink' = sink \o r.toks
           /\ pc' = After(r.st, IF more THEN "read_line" ELSE "done")
  /\ UNCHANGED <<table, op, locals>>

\* stdin().read_line returns: the loop goes on with the next page.
ReadLine ==
  /\ pc = "read_line"
  /\ lines_read' = lines_read + 1
  /\ page' = page + 1
  /\ pc' = "page"
  /\ UNCHANGED <<table, op, sink, total_pages, local_page_size>>

\* The call has returned Ok(()); the caller drops its writer.
Return ==
  /\ pc = "done"
  /\ pc' = "idle"
  /\ op' = "none"
  /\ sink' = <<>>
  /\ page' = 0
  /\ total_pages' = 0
  /\ local_page_size' = 0
  /\ lines_read' = 0
  /\ UNCHANGED table

Next ==
  \/ AddColumn
  \/ AddRow
  \/ SetPageSize
  \/ print
  \/ print_color
  \/ print_to_writer
  \/ Match
  \/ print_color_paginated
  \/ PageBody
  \/ ReadLine
  \/ Return

Spec == Init /\ [][Next]_vars

(***************************************************************************)
(* The same machine for tables of one plain and one bordered style: add_*, *)
(* set_page_size, calculate_column_widths and print_color_paginated never  *)
(* read the style.                                                         *)
(***************************************************************************)
CoreStyles == {"Simple", "Grid"}

InitCore == Init /\ style \in CoreStyles

SpecCore == InitCore /\ [][Next]_vars

(***************************************************************************)
(* The same machine for tables of every style whose page size is unset or *)
(* 1: print, print_color and print_to_writer never read the page size.     *)
(***************************************************************************)
NextStyles ==
  \/ AddColumn
  \/ AddRow
  \/ set_page_size(1)
  \/ print
  \/ print_color
  \/ print_to_writer
  \/ Match
  \/ print_color_paginated
  \/ PageBody
  \/ ReadLine
  \/ Return

SpecStyles == Init /\ [][NextStyles]_vars

(***************************************************************************)
(* Helpers of the properties.                                              *)
(***************************************************************************)
AllResolved == \A i \in 1..Len(columns) : columns[i].width.some

IsColor(t) == t \in {SET_FG_BLUE, SET_FG_WHITE}

IsNotColor(t) == ~IsColor(t)

WithoutColor(toks) == SelectSeq(toks, IsNotColor)

IsNL(t) == t = NL

LineCount(toks) == Len(SelectSeq(toks, IsNL))

\* The entry of the catalog written under the name st in define_styles!.
CatalogEntry(st) ==
  CHOOSE c \in {STYLES[i] : i \in 1..Len(STYLES)} : c.name = st

EmptyLineStyle(ls) ==
  ls.begin = "" /\ ls.hline = "" /\ ls.sep = "" /\ ls.end = ""

AllEmpty(config) ==
  /\ EmptyLineStyle(config.top)
  /\ EmptyLineStyle(config.below_header)
  /\ EmptyLineStyle(config.bottom)
  /\ EmptyLineStyle(config.row)

RenderOps == {"print", "print_color", "print_to_writer"}

(***************************************************************************)
(* C1: add_row with a number of cells different from the number of         *)
(* declared columns always fails (panics) and leaves the rows as they      *)
(* were; with a matching number the row is appended as the last row and    *)
(* the call returns.  Rows change in no other way: every change of the     *)
(* rows appends one row that has as many cells as there are columns.       *)
(***************************************************************************)
C1_AddRowContract ==
  [][ /\ \A n \in 0..(MaxCols + 1) : \A row \in RowInputs(n, Len(rows)) :
           add_row(row) =>
             IF Len(row) # Len(columns)
             THEN pc' = "panicked" /\ op' = "add_row" /\ rows' = rows
             ELSE /\ rows' = Append(rows, row)
                  /\ rows'[Len(rows')] = row
                  /\ pc' = "idle"
      /\ rows' # rows =>
           /\ Len(rows') = Len(rows) + 1
           /\ SubSeq(rows', 1, Len(rows)) = rows
           /\ Len(rows'[Len(rows')]) = Len(columns)
    ]_vars

\* A mismatching add_row has panicked on a table that holds appended rows.
C1_Witness ==
  /\ pc = "panicked"
  /\ op = "add_row"
  /\ Len(rows) >= 2
  /\ Len(columns) >= 1

(***************************************************************************)
(* C2: for each of the 14 styles, a render (print_color, print_to_writer)  *)
(* of a table of that style writes what the four LineStyle records written *)
(* under the style's name in the catalog draw: the top line, the header    *)
(* row, the header separator, the rows and the bottom line of              *)
(* print_styled with that entry, and, for an entry whose glyphs are all    *)
(* empty, the plain listing.                                               *)
(***************************************************************************)
DrawnWith(config) ==
  IF AllEmpty(config) THEN print_simple(columns, rows, TRUE).toks
  ELSE print_styled(columns, rows, config).toks

C2_StyleDrawnWithItsCatalogEntry ==
  (pc = "done" /\ op \in RenderOps) =>
     WithoutColor(sink) = DrawnWith(CatalogEntry(style))

(***************************************************************************)
(* C3: every render operation resolves the unset widths before it writes:  *)
(* whenever the running call has written something, no column's width is   *)
(* unset.  (Within a call the widths change only in                        *)
(* calculate_column_widths, and columns are added only between calls.)     *)
(***************************************************************************)
C3_ResolvedBeforeOutput ==
  sink # <<>> => AllResolved

(***************************************************************************)
(* C4: a width that has a value keeps it: no step (add_column, add_row,    *)
(* set_page_size, any step of any render, a second run of                  *)
(* calculate_column_widths) changes the width of a column that is declared *)
(* fixed or has been resolved.                                             *)
(***************************************************************************)
C4_ResolvedWidthsStable ==
  [][ \A i \in 1..Len(columns) :
        columns[i].width.some =>
          /\ i <= Len(columns')
          /\ columns'[i].width = columns[i].width
    ]_vars

(***************************************************************************)
(* A render has completed on a table where a column declared with no width *)
(* (header "No") was resolved to 4 by an earlier render and a row added    *)
(* since holds a longer cell in it.                                        *)
(***************************************************************************)
C4_Witness ==
  /\ pc = "done"
  /\ op \in {"print", "print_color"}
  /\ \E i \in 1..Len(columns) :
       /\ columns[i].header = "No"
       /\ columns[i].width = Some(4)
       /\ \E k \in 1..Len(rows) :
            Len(rows[k]) >= i /\ Len(rows[k][i]) + 2 > 4

(***************************************************************************)
(* C5: width resolution gives every column whose width is unset the width  *)
(* max(header length, longest cell of the rows at that position) + 2       *)
(* (header length + 2 with no rows) and leaves every other column at its   *)
(* declared width.  A step that gives a column a width gives it that       *)
(* value; a run of calculate_column_widths that returns leaves no column   *)
(* unset.                                                                  *)
(***************************************************************************)
LongestAt(i) ==
  LET lens == {Len(rows[k][i]) : k \in 1..Len(rows)} \cup {Len(columns[i].header)}
  IN  CHOOSE m \in lens : \A x \in lens : m >= x

IsResolutionStep ==
  /\ pc \in {"idle", "call_print_color"}
  /\ op' \in {"print", "print_color"}

C5_ResolutionFormula ==
  [][ /\ \A i \in 1..Len(columns) :
           IF columns[i].width.some
           THEN columns'[i].width = columns[i].width
           ELSE columns'[i].width.some =>
                  columns'[i].width = Some(LongestAt(i) + 2)
      /\ (IsResolutionStep /\ pc' # "panicked") =>
           \A i \in 1..Len(columns') : columns'[i].width.some
    ]_vars

(***************************************************************************)
(* Resolution has run on a table with rows where an unset column got its   *)
(* width from a cell longer than its header, and a fixed column narrower   *)
(* than its cells kept its width.                                          *)
(***************************************************************************)
C5_Witness ==
  /\ pc = "match"
  /\ op = "print_color"
  /\ Len(columns) = 2
  /\ Len(rows) >= 2
  /\ columns[1].header = "Id" /\ columns[1].width = Some(3)
  /\ columns[2].header = "No" /\ columns[2].width = Some(7)
  /\ \E k \in 1..Len(rows) : Len(rows[k]) = 2 /\ Len(rows[k][1]) > 3

(***************************************************************************)
(* C6: for a table of n rows and a page size p >= 1 the paginated render   *)
(* writes exactly ceil(n / p) pages, in order; page k (from 1) is the line *)
(* "Page k of total", the header line and the rows with the indices        *)
(* (k-1)*p .. min(k*p, n)-1 in table order.  Every page but the last holds *)
(* p rows, the last between 1 and p.  While the call runs, the sink holds  *)
(* the pages written so far; when it has returned, all of them.            *)
(***************************************************************************)
Ceil(n, p) == IF n % p = 0 THEN n \div p ELSE (n \div p) + 1

PageHeader(k, total) == "Page " \o ToString(k) \o " of " \o ToString(total)

\* The rows of page k: indices (k-1)*p .. min(k*p, n)-1, counted from 0.
PageRows(k, p) ==
  [j \in 1..(Min(k * p, Len(rows)) - (k - 1) * p) |-> rows[(k - 1) * p + j]]

ExpectedPage(k, p, total) ==
  <<PageHeader(k, total), NL>>
  \o print_headers(columns, TRUE).toks
  \o print_rows_from(columns, PageRows(k, p), 1, TRUE).toks
  \o (IF k < total THEN <<PRESS_ENTER, NL>> ELSE <<>>)

RECURSIVE ExpectedPages(_, _, _, _)
ExpectedPages(k, upto, p, total) ==
  IF k > upto THEN <<>>
  ELSE ExpectedPage(k, p, total) \o ExpectedPages(k + 1, upto, p, total)

C6_Pagination ==
  (op = "print_color_paginated" /\ pc \in {"page", "read_line", "done"}) =>
    LET n == Len(rows)
        p == unwrap_or(page_size, n)
    IN  /\ p >= 1
        /\ LET total == Ceil(n, p)
               written == CASE pc = "page" -> page
                            [] pc = "read_line" -> page + 1
                            [] pc = "done" -> total
           IN  /\ sink = ExpectedPages(1, written, p, total)
               /\ \A k \in 1..total :
                    /\ k < total => Len(PageRows(k, p)) = p
                    /\ k = total => Len(PageRows(k, p)) \in 1..p

\* 3 rows with page size 2 have been rendered: pages of 2 rows and 1 row.
C6_Witness ==
  /\ pc = "done"
  /\ op = "print_color_paginated"
  /\ Len(rows) = 3
  /\ page_size = Some(2)
  /\ Len(columns) >= 1

(***************************************************************************)
(* C7: the paginated render pauses after every page except the last and    *)
(* nowhere else.  The call blocks on stdin only in print_color_paginated,  *)
(* only after a page that is not the last, with the prompt as the last     *)
(* thing written; at any time at most one more page has been begun than    *)
(* lines have been read (no line of page k+1 before the acknowledgement of *)
(* page k); the call returns after the last page with total_pages - 1      *)
(* lines read and no prompt pending.                                       *)
(***************************************************************************)
IsPrompt(t) == t = PRESS_ENTER

IsPageHeader(t) == t \in {PageHeader(k, total_pages) : k \in 1..total_pages}

Prompts == Len(SelectSeq(sink, IsPrompt))

PagesBegun == Len(SelectSeq(sink, IsPageHeader))

C7_PauseBetweenPages ==
  /\ pc = "read_line" =>
       /\ op = "print_color_paginated"
       /\ page < total_pages - 1
       /\ PagesBegun = page + 1
       /\ Prompts = lines_read + 1
       /\ SubSeq(sink, Len(sink) - 1, Len(sink)) = <<PRESS_ENTER, NL>>
  /\ op = "print_color_paginated" =>
       /\ PagesBegun <= lines_read + 1
       /\ Prompts \in {lines_read, lines_read + 1}
  /\ op # "print_color_paginated" => (lines_read = 0 /\ Prompts = 0)
  /\ (pc = "done" /\ op = "print_color_paginated") =>
       /\ Prompts = lines_read
       /\ PagesBegun = total_pages
       /\ lines_read = IF total_pages = 0 THEN 0 ELSE total_pages - 1

\* A render of 3 pages has returned after 2 pauses.
C7_Witness ==
  /\ pc = "done"
  /\ op = "print_color_paginated"
  /\ total_pages = 3
  /\ lines_read = 2

(***************************************************************************)
(* C8: for a well-formed table (every row has as many cells as there are   *)
(* columns) a render that returns has written rows.count + 1 + b lines,    *)
(* where b is the number of border lines of the table's style: the number  *)
(* of the top, header-separator and bottom LineStyles of its catalog entry *)
(* that have a glyph (3 is accepted too for a style that has some border,  *)
(* should a border line without glyphs count as a line), the same for      *)
(* print_color and print_to_writer.                                        *)
(***************************************************************************)
DefinedBorders(config) ==
  (IF EmptyLineStyle(config.top) THEN 0 ELSE 1)
  + (IF EmptyLineStyle(config.below_header) THEN 0 ELSE 1)
  + (IF EmptyLineStyle(config.bottom) THEN 0 ELSE 1)

BorderLines(st) ==
  LET b == DefinedBorders(CatalogEntry(st))
  IN  IF b = 0 THEN {0} ELSE {b, 3}

WellFormed == \A k \in 1..Len(rows) : Len(rows[k]) = Len(columns)

C8_LineCount ==
  (pc = "done" /\ op \in RenderOps /\ WellFormed) =>
     (LineCount(sink) - Len(rows) - 1) \in BorderLines(style)

(***************************************************************************)
(* C9: a render that uses a glyph set whose glyphs are all empty (the      *)
(* table's style has such a catalog entry, or the match hands such an      *)
(* entry to print_styled) writes the unbordered listing: the header line   *)
(* and then one line per row, nothing else, every header and cell          *)
(* formatted to the column's content width (width - 1, at least 0) with    *)
(* one space between columns.  A space after the last column of a line is  *)
(* accepted.                                                               *)
(***************************************************************************)
ArmUsed ==
  IF op = "print_to_writer" THEN print_to_writer_match(style)
  ELSE print_color_match(style)

UsesAllEmptyGlyphs ==
  \/ AllEmpty(CatalogEntry(style))
  \/ ArmUsed.config.some /\ AllEmpty(StylesAt(ArmUsed.config.v))

ContentWidth(w) == IF w >= 1 THEN w - 1 ELSE 0

RECURSIVE ListingLineFrom(_, _, _)
ListingLineFrom(texts, i, trailing) ==
  LET n == Min(Len(texts), Len(columns))
  IN  IF i > n THEN <<NL>>
      ELSE FormatAligned(texts[i],
                         ContentWidth(unwrap_or(columns[i].width, 0)),
                         columns[i].alignment)
           \o (IF i < n \/ trailing THEN <<" ">> ELSE <<>>)
           \o ListingLineFrom(texts, i + 1, trailing)

RECURSIVE ListingRowsFrom(_, _)
ListingRowsFrom(k, trailing) ==
  IF k > Len(rows) THEN <<>>
  ELSE ListingLineFrom(rows[k], 1, trailing) \o ListingRowsFrom(k + 1, trailing)

UnborderedListing(header_trailing, row_trailing) ==
  ListingLineFrom([i \in 1..Len(columns) |-> columns[i].header], 1,
                  header_trailing)
  \o ListingRowsFrom(1, row_trailing)

C9_EmptyGlyphsGiveListing ==
  (pc = "done" /\ op \in RenderOps /\ UsesAllEmptyGlyphs) =>
     \E ht \in BOOLEAN : \E rt \in BOOLEAN :
        WithoutColor(sink) = UnborderedListing(ht, rt)

(***************************************************************************)
(* C10: colour directives are written for an Amiga table rendered by       *)
(* print_color (directly or through print) and for nothing else.  There,   *)
(* the first thing written is the switch to blue, then the header line,    *)
(* then the switch to white, then the rows; no other directive follows, so *)
(* a render that has returned wrote exactly blue, white and left the sink  *)
(* white.                                                                  *)
(***************************************************************************)
Colors == SelectSeq(sink, IsColor)

HeaderLine == print_headers(columns, TRUE).toks

C11_WidthMinusOneNeverWraps ==
  pc # "wrapped"

(***************************************************************************)
(* C12: after any sequence of add_column and add_row calls, in any order,  *)
(* every stored row has exactly as many cells as the table has columns (so *)
(* row[i] exists for every column index i and the zip of columns and cells *)
(* drops no column).                                                       *)
(***************************************************************************)
C12_RowsMatchColumns ==
  \A k \in 1..Len(rows) : Len(rows[k]) = Len(columns)

(***************************************************************************)
(* C13: print_color_paginated has no arithmetic failure in computing its   *)
(* pages, whatever the page size: the call never panics on the page size   *)
(* it took (0 from set_page_size(0), or from rows.len() of a table with no *)
(* rows and no page size set).  For a table with no rows it returns having *)
(* written no page and read no line.                                       *)
(***************************************************************************)
C13_PaginatedTotalOnPageSize ==
  op = "print_color_paginated" =>
    /\ ~(pc = "panicked" /\ local_page_size = 0)
    /\ (pc = "done" /\ Len(rows) = 0) =>
         (sink = <<>> /\ lines_read = 0 /\ total_pages = 0)

====
